---------------------------- MODULE Spec2Model ----------------------------
(***************************************************************************)
(* State-machine model of the student routes of the NPTEL management       *)
(* backend (src/src/routes/student.js) over the Student collection         *)
(* (src/unnamed/part_001, src/src/models/Student.js).                      *)
(*                                                                         *)
(* routes/student.js holds two historical variants of the router (lines    *)
(* 1-397 and 398-740).  The variable `variant` says which one is deployed. *)
(*                                                                         *)
(* Strings are sequences of one-character strings, so that toLowerCase,    *)
(* split, trim, includes, the filename regular expressions and parseFloat  *)
(* are computed character by character as the JavaScript does.             *)
(***************************************************************************)
EXTENDS Integers, Sequences, FiniteSets, TLC

VARIABLES
    variant,    \* 1 or 2: the deployed variant of routes/student.js
    students,   \* the Student collection: document id -> document
    req,        \* the week-score upload in flight: [active, filename, content]
    batch,      \* its courseId, branch and headers (the handler's local variables)
    tasks,      \* one entry per retained row of the upload in flight
    res,        \* the response of the upload in flight; status 0: none sent yet
    lookups,    \* rows of the upload in flight whose findOneAndUpdate reached the store
    prev        \* the previous upload, where a specification records it

vars == <<variant, students, req, batch, tasks, res, lookups, prev>>

(***************************************************************************)
(* Bounds of the model.                                                    *)
(***************************************************************************)
MaxStudents == 2
MaxCourses == 2
MaxRows == 2

(***************************************************************************)
(* JavaScript string primitives on character sequences.                    *)
(***************************************************************************)
LowerCase ==
    <<"a","b","c","d","e","f","g","h","i","j","k","l","m",
      "n","o","p","q","r","s","t","u","v","w","x","y","z">>

UpperCase ==
    <<"A","B","C","D","E","F","G","H","I","J","K","L","M",
      "N","O","P","Q","R","S","T","U","V","W","X","Y","Z">>

Digits == <<"0","1","2","3","4","5","6","7","8","9">>

IsDigit(c) == \E i \in 1..Len(Digits) : Digits[i] = c

DigitValue(c) == (CHOOSE i \in 1..Len(Digits) : Digits[i] = c) - 1

ToLowerChar(c) ==
    IF \E i \in 1..Len(UpperCase) : UpperCase[i] = c
    THEN LowerCase[CHOOSE i \in 1..Len(UpperCase) : UpperCase[i] = c]
    ELSE c

ToUpperChar(c) ==
    IF \E i \in 1..Len(LowerCase) : LowerCase[i] = c
    THEN UpperCase[CHOOSE i \in 1..Len(LowerCase) : LowerCase[i] = c]
    ELSE c

\* String.prototype.toLowerCase
ToLower(s) == [i \in 1..Len(s) |-> ToLowerChar(s[i])]

\* String.prototype.toUpperCase
ToUpper(s) == [i \in 1..Len(s) |-> ToUpperChar(s[i])]

\* s has sub at (1-based) position p
HasAt(s, p, sub) ==
    /\ p >= 1
    /\ p + Len(sub) - 1 <= Len(s)
    /\ SubSeq(s, p, p + Len(sub) - 1) = sub

\* String.prototype.includes
Includes(s, sub) == \E p \in 1..(Len(s) + 1) : HasAt(s, p, sub)

IsSpace(c) == c \in {" ", "\t", "\r", "\n"}

\* String.prototype.trim
Trim(s) ==
    IF \A i \in 1..Len(s) : IsSpace(s[i])
    THEN <<>>
    ELSE LET first == CHOOSE i \in 1..Len(s) :
                          /\ ~IsSpace(s[i])
                          /\ \A j \in 1..(i - 1) : IsSpace(s[j])
             last  == CHOOSE i \in 1..Len(s) :
                          /\ ~IsSpace(s[i])
                          /\ \A j \in (i + 1)..Len(s) : IsSpace(s[j])
         IN  SubSeq(s, first, last)

\* String.prototype.split on a one-character separator: always at least one piece
RECURSIVE Split(_, _)
Split(s, sep) ==
    IF \A i \in 1..Len(s) : s[i] # sep
    THEN <<s>>
    ELSE LET p == CHOOSE i \in 1..Len(s) :
                      /\ s[i] = sep
                      /\ \A j \in 1..(i - 1) : s[j] # sep
         IN  <<SubSeq(s, 1, p - 1)>> \o Split(SubSeq(s, p + 1, Len(s)), sep)

\* length of the run of digits of s that starts at position p (\d+ is greedy)
RECURSIVE DigitRun(_, _)
DigitRun(s, p) ==
    IF p <= Len(s) /\ IsDigit(s[p]) THEN 1 + DigitRun(s, p + 1) ELSE 0

\* value of a sequence of digits
RECURSIVE DigitsValue(_)
DigitsValue(d) ==
    IF d = <<>> THEN 0
    ELSE 10 * DigitsValue(SubSeq(d, 1, Len(d) - 1)) + DigitValue(d[Len(d)])

\* parseFloat(cell) || 0 on cells without a fraction or exponent: an optional
\* sign and the leading digits; NaN (no leading digit) and 0 both give 0.
ParseFloatOr0(cell) ==
    LET s    == Trim(cell)
        neg  == Len(s) >= 1 /\ s[1] = "-"
        from == IF Len(s) >= 1 /\ s[1] \in {"-", "+"} THEN 2 ELSE 1
        n    == DigitRun(s, from)
    IN  IF n = 0 THEN 0
        ELSE IF neg THEN 0 - DigitsValue(SubSeq(s, from, from + n - 1))
        ELSE DigitsValue(SubSeq(s, from, from + n - 1))

(***************************************************************************)
(* Filename -> course id (router.post('/updateweekscore'), both variants). *)
(***************************************************************************)
NoMatch == [matched |-> FALSE]

\* the alternatives (cs|me|ce|ee|ece) of variant 1, in the order tried
BranchCodes1 ==
    << <<"c","s">>, <<"m","e">>, <<"c","e">>, <<"e","e">>, <<"e","c","e">> >>

\* the alternatives (ce|cs) of variant 2, in the order tried
BranchCodes2 == << <<"c","e">>, <<"c","s">> >>

\* alternatives that match (ignoring case) at position p and are followed by
\* at least one digit
AltsAt(f, p, codes) ==
    { k \in 1..Len(codes) :
        /\ HasAt(ToLower(f), p, codes[k])
        /\ DigitRun(f, p + Len(codes[k])) >= 1 }

\* the first alternative that leads to a match
FirstAlt(f, p, codes) ==
    LET ks == AltsAt(f, p, codes)
    IN  codes[CHOOSE k \in ks : \A j \in ks : k <= j]

\* /ns_noc25_(cs|me|ce|ee|ece)(\d+)/i matched at position p
MatchAt1(f, p) ==
    /\ HasAt(ToLower(f), p, <<"n","s","_","n","o","c","2","5","_">>)
    /\ AltsAt(f, p + 9, BranchCodes1) # {}

\* filename.match(/ns_noc25_(cs|me|ce|ee|ece)(\d+)/i): the leftmost match,
\* groups 1 and 2
CourseMatch1(f) ==
    IF \A p \in 1..Len(f) : ~MatchAt1(f, p)
    THEN NoMatch
    ELSE LET p   == CHOOSE q \in 1..Len(f) :
                        MatchAt1(f, q) /\ \A j \in 1..(q - 1) : ~MatchAt1(f, j)
             alt == FirstAlt(f, p + 9, BranchCodes1)
             b   == p + 9
             d   == b + Len(alt)
         IN  [matched |-> TRUE,
              branch  |-> SubSeq(f, b, d - 1),
              number  |-> SubSeq(f, d, d + DigitRun(f, d) - 1)]

\* /noc\d+[-_](ce|cs)\d+/i matched at position p
MatchAt2(f, p) ==
    LET d == p + 3
        n == DigitRun(f, d)
    IN  /\ HasAt(ToLower(f), p, <<"n","o","c">>)
        /\ n >= 1
        /\ d + n <= Len(f)
        /\ f[d + n] \in {"-", "_"}
        /\ AltsAt(f, d + n + 1, BranchCodes2) # {}

\* String.prototype.replace(a, b) with one-character strings: the first
\* occurrence only
ReplaceFirst(s, a, b) ==
    IF \A i \in 1..Len(s) : s[i] # a
    THEN s
    ELSE LET p == CHOOSE i \in 1..Len(s) :
                      s[i] = a /\ \A j \in 1..(i - 1) : s[j] # a
         IN  [s EXCEPT ![p] = b]

\* filename.replace(/^ns_/, '').match(/noc\d+[-_](ce|cs)\d+/i): match[0]
CourseMatch2(filename) ==
    LET f == IF HasAt(filename, 1, <<"n","s","_">>)
             THEN SubSeq(filename, 4, Len(filename))
             ELSE filename
    IN  IF \A p \in 1..Len(f) : ~MatchAt2(f, p)
        THEN NoMatch
        ELSE LET p   == CHOOSE q \in 1..Len(f) :
                            MatchAt2(f, q) /\ \A j \in 1..(q - 1) : ~MatchAt2(f, j)
                 sep == p + 3 + DigitRun(f, p + 3)
                 alt == FirstAlt(f, sep + 1, BranchCodes2)
                 d   == sep + 1 + Len(alt)
             IN  [matched |-> TRUE,
                  all     |-> SubSeq(f, p, d + DigitRun(f, d) - 1)]

\* (the resolver without its toLowerCase)
ResolveCourseKeepCase(v, filename) ==
    IF v = 1
    THEN LET m == CourseMatch1(filename)
         IN  IF ~m.matched THEN NoMatch
             ELSE [matched  |-> TRUE,
                   courseId |-> <<"n","o","c","2","5","-">> \o m.branch \o m.number,
                   branch   |-> m.branch]
    ELSE LET m == CourseMatch2(filename)
         IN  IF ~m.matched THEN NoMatch
             ELSE [matched  |-> TRUE,
                   courseId |-> ReplaceFirst(m.all, "_", "-"),
                   branch   |-> <<>>]

\* the course of the batch: [matched, courseId, branch]; variant 2 has no
\* branch (it is left empty and never read)
ResolveCourse(v, filename) ==
    IF v = 1
    THEN LET m == CourseMatch1(filename)
         IN  IF ~m.matched THEN NoMatch
             ELSE [matched  |-> TRUE,
                   courseId |-> <<"n","o","c","2","5","-">>
                                    \o ToLower(m.branch) \o m.number,
                   branch   |-> ToLower(m.branch)]
    ELSE LET m == CourseMatch2(filename)
         IN  IF ~m.matched THEN NoMatch
             ELSE [matched  |-> TRUE,
                   courseId |-> ReplaceFirst(ToLower(m.all), "_", "-"),
                   branch   |-> <<>>]

(***************************************************************************)
(* CSV content -> rows, header, week-score columns, retained rows.         *)
(***************************************************************************)
\* fileContent.split('\n').map(row => row.split(',').map(cell => cell.trim()))
ParseRows(content) ==
    LET lines == Split(content, "\n")
    IN  [i \in 1..Len(lines) |->
            LET cells == Split(lines[i], ",")
            IN  [j \in 1..Len(cells) |-> Trim(cells[j])]]

\* (a header counted as a score column for the word "week" alone)
IsWeekHeaderWeekOnly(header) ==
    Includes(ToLower(header), <<"w","e","e","k">>)

IsWeekHeader(header) ==
    /\ Includes(ToLower(header), <<"w","e","e","k">>)
    /\ Includes(ToLower(header), <<"a","s","s","i","g","n","m","e","n","t">>)

\* indexes (1-based) of the headers kept by the filter, in header order
RECURSIVE WeekScoreColumnsFrom(_, _)
WeekScoreColumnsFrom(headers, i) ==
    IF i > Len(headers) THEN <<>>
    ELSE (IF IsWeekHeader(headers[i]) THEN <<i>> ELSE <<>>)
             \o WeekScoreColumnsFrom(headers, i + 1)

WeekScoreColumns(headers) == WeekScoreColumnsFrom(headers, 1)

\* rows.slice(1).filter(row => row.length >= headers.length)
RECURSIVE RetainedFrom(_, _)
RetainedFrom(rows, i) ==
    IF i > Len(rows) THEN <<>>
    ELSE (IF Len(rows[i]) >= Len(rows[1]) THEN <<rows[i]>> ELSE <<>>)
             \o RetainedFrom(rows, i + 1)

RetainedRows(rows) == RetainedFrom(rows, 2)

\* (no entry for a cell that parses to NaN)
RowResultsSkipNaN(headers, row) ==
    LET cols == WeekScoreColumns(headers)
        num(k) == LET s == Trim(row[cols[k]])
                  IN  DigitRun(s, IF Len(s) >= 1 /\ s[1] \in {"-", "+"} THEN 2 ELSE 1) >= 1
        RECURSIVE From(_)
        From(k) == IF k > Len(cols) THEN <<>>
                   ELSE (IF num(k)
                         THEN <<[week |-> headers[cols[k]],
                                 score |-> ParseFloatOr0(row[cols[k]])]>>
                         ELSE <<>>) \o From(k + 1)
    IN  From(1)

\* weekScoreColumns.map(({header, index}) => ({week: header,
\*                                             score: parseFloat(row[index]) || 0}))
RowResults(headers, row) ==
    LET cols == WeekScoreColumns(headers)
    IN  [k \in 1..Len(cols) |->
            [week |-> headers[cols[k]], score |-> ParseFloatOr0(row[cols[k]])]]

\* !x for a string x
Falsy(x) == x = <<>>

(***************************************************************************)
(* The Student collection.                                                 *)
(***************************************************************************)
DocIds == 1..MaxStudents

\* a Student document (StudentSchema)
Doc(r, e, b, cs) ==
    [rollNumber |-> r, name |-> <<"n">>, branch |-> b, year |-> <<"2">>,
     email |-> e, courses |-> cs]

\* an element of Student.courses
Enrollment(cid, results) ==
    [courseId |-> cid, courseName |-> <<"c">>, subjectMentor |-> <<"m">>,
     results |-> results]

\* the id given to an inserted document: one not in use
FreshId(store) == CHOOSE i \in DocIds \ DOMAIN store : \A j \in DocIds \ DOMAIN store : i <= j

Insert(store, doc) ==
    LET id == FreshId(store)
    IN  [i \in DOMAIN store \cup {id} |-> IF i = id THEN doc ELSE store[i]]

Remove(store, id) == [i \in DOMAIN store \ {id} |-> store[i]]

\* rollNumber: { unique: true }
RollTaken(store, r, except) ==
    \E i \in DOMAIN store \ except : store[i].rollNumber = r

(***************************************************************************)
(* POST /, PUT /:id, DELETE /:id, POST /reset-results.                     *)
(***************************************************************************)
\* router.post('/'): new Student(req.body).save()
CreateStudent(body) ==
    /\ Cardinality(DOMAIN students) < MaxStudents
    /\ ~RollTaken(students, body.rollNumber, {})
    /\ students' = Insert(students, body)
    /\ UNCHANGED <<variant, req, batch, tasks, res, lookups, prev>>

\* the update document of findByIdAndUpdate(id, req.body): the fields of the
\* body replace the document's
Patched(doc, body) ==
    [f \in DOMAIN doc |-> IF f \in DOMAIN body THEN body[f] ELSE doc[f]]

\* router.put('/:id'): Student.findByIdAndUpdate(id, req.body)
UpdateStudent(id, body) ==
    /\ id \in DOMAIN students
    /\ students' = [students EXCEPT ![id] = Patched(@, body)]
    /\ UNCHANGED <<variant, req, batch, tasks, res, lookups, prev>>

\* router.delete('/:id'): Student.findByIdAndDelete(id)
DeleteStudent(id) ==
    /\ id \in DOMAIN students
    /\ students' = Remove(students, id)
    /\ UNCHANGED <<variant, req, batch, tasks, res, lookups, prev>>

\* { $set: { 'courses.$[].results': [] } } on one document
ClearResults(doc) ==
    [doc EXCEPT !.courses =
        [k \in 1..Len(doc.courses) |-> [doc.courses[k] EXCEPT !.results = <<>>]]]

\* router.post('/reset-results') (variant 1 only): Student.updateMany({}, ...)
ResetResults ==
    /\ variant = 1
    /\ students' = [i \in DOMAIN students |-> ClearResults(students[i])]
    /\ UNCHANGED <<variant, req, batch, tasks, res, lookups, prev>>

(***************************************************************************)
(* POST /bulk: one findOneAndUpdate (upsert, $setOnInsert, $push) per row. *)
(***************************************************************************)
\* email: row['Email Id'] || `${row['ID'].toLowerCase()}@.ac.in`
BulkEmail(row) ==
    IF Falsy(row.email)
    THEN ToLower(row.id) \o <<"@",".","a","c",".","i","n">>
    ELSE row.email

\* the filter { $or: [{ rollNumber }, { email }] }
BulkFilter(doc, row) ==
    \/ doc.rollNumber = row.id
    \/ doc.email = BulkEmail(row)

\* { $push: { courses: course } }
PushCourse(doc, row) ==
    [doc EXCEPT !.courses = Append(@, Enrollment(row.courseId, <<>>))]

\* the stores one row's findOneAndUpdate can leave: the update of one of the
\* matching documents (the store picks which), or the insert of a new one
BulkRowStores(store, row) ==
    LET hit == { i \in DOMAIN store : BulkFilter(store[i], row) }
    IN  IF hit # {}
        THEN { [store EXCEPT ![i] = PushCourse(store[i], row)] : i \in hit }
        ELSE { Insert(store,
                      Doc(row.id, BulkEmail(row), row.branch,
                          <<Enrollment(row.courseId, <<>>)>>)) }

\* the row can be processed within the bounds of the model
BulkRowInBounds(store, row) ==
    LET hit == { i \in DOMAIN store : BulkFilter(store[i], row) }
    IN  IF hit # {}
        THEN \A i \in hit : Len(store[i].courses) < MaxCourses
        ELSE Cardinality(DOMAIN store) < MaxStudents

\* the stores the rows data[i..] can leave, their store operations taken in
\* sequence order (every order of the rows is some sequence of the input set)
RECURSIVE BulkStores(_, _, _)
BulkStores(store, data, i) ==
    IF i > Len(data) THEN {store}
    ELSE IF ~BulkRowInBounds(store, data[i]) THEN {}
    ELSE UNION { BulkStores(st, data, i + 1) : st \in BulkRowStores(store, data[i]) }

\* router.post('/bulk')
BulkUpload(data) ==
    /\ students' \in BulkStores(students, data, 1)
    /\ UNCHANGED <<variant, req, batch, tasks, res, lookups, prev>>

(***************************************************************************)
(* POST /updateweekscore.                                                  *)
(***************************************************************************)
NoReq == [active |-> FALSE, filename |-> <<>>, content |-> <<>>]

NoBatch == [courseId |-> <<>>, branch |-> <<>>, headers |-> <<>>]

NoRes == [status |-> 0]

\* the checks that end the request with a 400 before any row is looked at;
\* variant 2 only checks the filename
Validate(v, file) ==
    LET rows == ParseRows(file.content)
    IN  IF ~ResolveCourse(v, file.filename).matched THEN "filename"
        ELSE IF v = 1 /\ Len(rows) < 2 THEN "empty"
        ELSE IF v = 1 /\ WeekScoreColumns(rows[1]) = <<>> THEN "noweeks"
        ELSE "ok"

\* (the check with && in place of ||)
MissingIdentityBoth(v, email, rollNumber) ==
    v = 1 /\ Falsy(email) /\ Falsy(rollNumber)

\* if (!email || !rollNumber) throw ...   (variant 1 only)
MissingIdentity(v, email, rollNumber) ==
    v = 1 /\ (Falsy(email) \/ Falsy(rollNumber))

\* the row's promise when .map(async (row) => ...) returns: rejected by the
\* identity check, or waiting for its findOneAndUpdate
NewTask(v, row) ==
    [row    |-> row,
     status |-> IF MissingIdentity(v, row[3], row[4]) THEN "rejected" ELSE "pending",
     reason |-> IF MissingIdentity(v, row[3], row[4]) THEN "missing" ELSE "",
     doc    |-> 0]

\* the handler up to `await Promise.allSettled(...)`: no await before it
StartRequest(file) ==
    /\ ~req.active
    /\ req' = [active |-> TRUE, filename |-> file.filename, content |-> file.content]
    /\ lookups' = {}
    /\ LET verdict == Validate(variant, file)
           course  == ResolveCourse(variant, file.filename)
           rows    == ParseRows(file.content)
           kept    == RetainedRows(rows)
       IN  IF verdict # "ok"
           THEN /\ res' = [status |-> 400, error |-> verdict]
                /\ batch' = NoBatch
                /\ tasks' = <<>>
           ELSE /\ res' = NoRes
                /\ batch' = [courseId |-> course.courseId,
                             branch   |-> course.branch,
                             headers  |-> rows[1]]
                /\ tasks' = [i \in 1..Len(kept) |-> NewTask(variant, kept[i])]
    /\ UNCHANGED <<variant, students>>

StartUpload(file) == StartRequest(file) /\ UNCHANGED prev

\* (the filter without its condition on courses.courseId)
StudentFilterAnyCourse(v, doc, email, rollNumber, courseId, branch) ==
    /\ doc.email = email \/ doc.rollNumber = rollNumber
    /\ v = 1 => doc.branch = ToUpper(branch)

\* (the filter comparing email and roll number without regard to letter case)
StudentFilterIgnoreCase(v, doc, email, rollNumber, courseId, branch) ==
    /\ \/ ToLower(doc.email) = ToLower(email)
       \/ ToLower(doc.rollNumber) = ToLower(rollNumber)
    /\ \E k \in 1..Len(doc.courses) : doc.courses[k].courseId = courseId
    /\ v = 1 => doc.branch = ToUpper(branch)

\* (the filter without its condition on branch)
StudentFilterNoBranch(v, doc, email, rollNumber, courseId, branch) ==
    /\ doc.email = email \/ doc.rollNumber = rollNumber
    /\ \E k \in 1..Len(doc.courses) : doc.courses[k].courseId = courseId

\* the filter of the row's findOneAndUpdate
StudentFilter(v, doc, email, rollNumber, courseId, branch) ==
    /\ doc.email = email \/ doc.rollNumber = rollNumber
    /\ \E k \in 1..Len(doc.courses) : doc.courses[k].courseId = courseId
    /\ v = 1 => doc.branch = ToUpper(branch)

\* the element 'courses.$' stands for: the first one the filter's condition
\* on courses matches (0: none)
Positional(doc, courseId) ==
    IF \A k \in 1..Len(doc.courses) : doc.courses[k].courseId # courseId
    THEN 0
    ELSE CHOOSE k \in 1..Len(doc.courses) :
             /\ doc.courses[k].courseId = courseId
             /\ \A j \in 1..(k - 1) : doc.courses[j].courseId # courseId

\* ($push of the new results in place of $set)
SetResultsAppend(doc, courseId, results) ==
    IF Positional(doc, courseId) = 0
    THEN doc
    ELSE [doc EXCEPT !.courses[Positional(doc, courseId)].results = @ \o results]

\* ('courses.$[].results': the results written to every enrollment)
SetResultsAll(doc, courseId, results) ==
    IF Positional(doc, courseId) = 0
    THEN doc
    ELSE [doc EXCEPT !.courses =
             [k \in 1..Len(doc.courses) |-> [doc.courses[k] EXCEPT !.results = results]]]

\* { $set: { 'courses.$.results': results } }: nothing is written without a
\* matched element
SetResults(doc, courseId, results) ==
    IF Positional(doc, courseId) = 0
    THEN doc
    ELSE [doc EXCEPT !.courses[Positional(doc, courseId)].results = results]

\* (findOneAndUpdate with upsert: a row that finds nobody leaves a new student
\* behind and is still reported as not found)
RowStoreUpsert(i) ==
    /\ i \in 1..Len(tasks)
    /\ tasks[i].status = "pending"
    /\ lookups' = lookups \cup {i}
    /\ LET row == tasks[i].row
           hit == { d \in DOMAIN students :
                      StudentFilter(variant, students[d], row[3], row[4],
                                    batch.courseId, batch.branch) }
       IN  \/ /\ hit = {}
              /\ tasks' = [tasks EXCEPT ![i].status = "rejected",
                                        ![i].reason = "notfound"]
              /\ students' =
                    IF Cardinality(DOMAIN students) < MaxStudents
                    THEN Insert(students,
                                Doc(row[4], row[3], ToUpper(batch.branch),
                                    <<Enrollment(batch.courseId,
                                                 RowResults(batch.headers, row))>>))
                    ELSE students
           \/ \E d \in hit :
                /\ students' = [students EXCEPT ![d] =
                                   SetResults(@, batch.courseId,
                                              RowResults(batch.headers, row))]
                /\ tasks' = [tasks EXCEPT ![i].status = "fulfilled",
                                          ![i].doc = d]
    /\ UNCHANGED <<variant, req, batch, res, prev>>

\* a row's findOneAndUpdate reaches the store and its promise settles
RowStore(i) ==
    /\ i \in 1..Len(tasks)
    /\ tasks[i].status = "pending"
    /\ lookups' = lookups \cup {i}
    /\ LET row == tasks[i].row
           hit == { d \in DOMAIN students :
                      StudentFilter(variant, students[d], row[3], row[4],
                                    batch.courseId, batch.branch) }
       IN  \/ /\ hit = {}
              /\ tasks' = [tasks EXCEPT ![i].status = "rejected",
                                        ![i].reason = "notfound"]
              /\ UNCHANGED students
           \/ \E d \in hit :
                /\ students' = [students EXCEPT ![d] =
                                   SetResults(@, batch.courseId,
                                              RowResults(batch.headers, row))]
                /\ tasks' = [tasks EXCEPT ![i].status = "fulfilled",
                                          ![i].doc = d]
    /\ UNCHANGED <<variant, req, batch, res, prev>>

\* a row's findOneAndUpdate fails in the store (connection lost, write error)
RowStoreError(i) ==
    /\ i \in 1..Len(tasks)
    /\ tasks[i].status = "pending"
    /\ lookups' = lookups \cup {i}
    /\ tasks' = [tasks EXCEPT ![i].status = "rejected", ![i].reason = "store"]
    /\ UNCHANGED <<variant, students, req, batch, res, prev>>

\* (a join that is satisfied by the first settled promise)
AnySettled(ts) == \E i \in 1..Len(ts) : ts[i].status # "pending"

AllSettled(ts) == \A i \in 1..Len(ts) : ts[i].status # "pending"

\* (Promise.all: rejects as soon as one promise rejects)
JoinRowsFailFast(ts) ==
    [ready    |-> \/ \A i \in 1..Len(ts) : ts[i].status = "fulfilled"
                  \/ \E i \in 1..Len(ts) : ts[i].status = "rejected",
     rejected |-> \E i \in 1..Len(ts) : ts[i].status = "rejected"]

\* Promise.allSettled: resolves once every promise has settled, never rejects
JoinRows(ts) == [ready |-> AllSettled(ts), rejected |-> FALSE]

\* (every processed row counted as a success)
SuccessfulAll(ts) == Len(ts)

Successful(ts) == Cardinality({ i \in 1..Len(ts) : ts[i].status = "fulfilled" })

\* (the identity of a failure taken from the email column)
RECURSIVE FailedByEmail(_, _)
FailedByEmail(ts, i) ==
    IF i > Len(ts) THEN <<>>
    ELSE (IF ts[i].status = "rejected"
          THEN <<[studentId |-> ts[i].row[3], error |-> ts[i].reason]>>
          ELSE <<>>) \o FailedByEmail(ts, i + 1)

\* results.filter(r => r.status === 'rejected'), in row order
RECURSIVE Failed(_, _)
Failed(ts, i) ==
    IF i > Len(ts) THEN <<>>
    ELSE (IF ts[i].status = "rejected"
          THEN <<[studentId |-> ts[i].row[4], error |-> ts[i].reason]>>
          ELSE <<>>) \o Failed(ts, i + 1)

\* res.json({ message, courseId, successful, failed, errors })
Report(ts, b) ==
    [status     |-> 200,
     processed  |-> Len(ts),
     courseId   |-> b.courseId,
     successful |-> Successful(ts),
     failed     |-> Len(Failed(ts, 1)),
     errors     |-> Failed(ts, 1)]

\* the handler after the await: the report, or the 500 of the outer catch
Respond ==
    /\ req.active
    /\ res.status = 0
    /\ JoinRows(tasks).ready
    /\ res' = IF JoinRows(tasks).rejected
              THEN [status |-> 500, error |-> "fatal"]
              ELSE Report(tasks, batch)
    /\ UNCHANGED <<variant, students, req, batch, tasks, lookups, prev>>

NoPrev == [set |-> FALSE]

\* the request is over; the next upload can start
FinishRequest ==
    /\ req.active
    /\ res.status # 0
    /\ AllSettled(tasks)
    /\ req' = NoReq
    /\ batch' = NoBatch
    /\ tasks' = <<>>
    /\ res' = NoRes
    /\ lookups' = {}
    /\ UNCHANGED <<variant, students>>

Finish == FinishRequest /\ UNCHANGED prev

(***************************************************************************)
(* The requests the model sends.                                           *)
(***************************************************************************)
RollA == <<"r","1">>
RollB == <<"r","2">>
EmailA == <<"a","@","x">>
EmailB == <<"b","@","x">>
BranchCS == <<"C","S">>
BranchME == <<"M","E">>
CourseCs1 == <<"n","o","c","2","5","-","c","s","1">>
CourseCs1Upper == <<"N","O","C","2","5","-","C","S","1">>
Week1 == <<"W","e","e","k"," ","1"," ","A","s","s","i","g","n","m","e","n","t">>
Week2 == <<"W","e","e","k"," ","2"," ","A","s","s","i","g","n","m","e","n","t">>

\* bodies of POST /
Bodies ==
    { Doc(RollA, EmailA, BranchCS, <<>>),
      Doc(RollB, EmailB, BranchME, <<>>) }

\* bodies of PUT /:id
Patches ==
    { [branch |-> BranchCS],
      [courses |-> <<Enrollment(CourseCs1Upper,
                                <<[week |-> Week2, score |-> 7]>>)>>] }

\* rows of the enrollment spreadsheet of POST /bulk
BulkRows ==
    { [id |-> RollA, email |-> EmailA, branch |-> BranchCS, courseId |-> CourseCs1],
      [id |-> RollB, email |-> <<>>, branch |-> BranchME, courseId |-> CourseCs1] }

BulkSheets == UNION { [1..n -> BulkRows] : n \in 1..MaxRows }

\* names of uploaded week-score files
Filenames ==
    { <<"n","s","_","n","o","c","2","5","_","c","s","1",".","c","s","v">>,
      <<"m","a","r","k","s",".","c","s","v">> }

\* header lines: with and without a week-score column
HeaderWeek ==
    <<"I","D",",","N","a","m","e",",","E","m","a","i","l",",","R","o","l","l",",",
      "W","e","e","k"," ","1"," ","A","s","s","i","g","n","m","e","n","t">>

HeaderNoWeek ==
    <<"I","D",",","N","a","m","e",",","E","m","a","i","l",",","R","o","l","l",",",
      "T","o","t","a","l">>

\* data lines: student A; student B with the roll number alone and a score
\* that is no number; neither email nor roll number
DataLines ==
    { <<"1",",","n",",","a","@","x",",","r","1",",","5">>,
      <<"2",",","n",",",",","r","2",",","x">>,
      <<"4",",","n",",",",",",","2">> }

RECURSIVE JoinLines(_)
JoinLines(lines) ==
    IF Len(lines) = 0 THEN <<>>
    ELSE IF Len(lines) = 1 THEN lines[1]
    ELSE lines[1] \o <<"\n">> \o JoinLines(Tail(lines))

LinesUpTo(n) == UNION { [1..k -> DataLines] : k \in 0..n }

\* the contents a CSV export can have: a header, up to MaxRows data lines,
\* with or without a newline after the last line; under the header without
\* week-score column, at most one data line
Contents ==
    { JoinLines(<<HeaderWeek>> \o d) \o nl :
        d \in LinesUpTo(MaxRows), nl \in { <<>>, <<"\n">> } }
    \cup
    { JoinLines(<<HeaderNoWeek>> \o d) : d \in LinesUpTo(1) }

\* the uploads: every content under the name of a course, and a header alone
\* under a name that is none
Uploads ==
    { [filename |-> f, content |-> c] :
        f \in { g \in Filenames : ResolveCourse(1, g).matched }, c \in Contents }
    \cup
    { [filename |-> f, content |-> HeaderWeek \o nl] :
        f \in { g \in Filenames : ~ResolveCourse(1, g).matched },
        nl \in { <<>>, <<"\n">> } }

(***************************************************************************)
(* The state machine.                                                      *)
(***************************************************************************)
Init ==
    /\ variant \in {1, 2}
    /\ students = <<>>
    /\ req = NoReq
    /\ batch = NoBatch
    /\ tasks = <<>>
    /\ res = NoRes
    /\ lookups = {}
    /\ prev = NoPrev

Next ==
    \/ \E body \in Bodies : CreateStudent(body)
    \/ \E id \in DocIds, body \in Patches : UpdateStudent(id, body)
    \/ \E id \in DocIds : DeleteStudent(id)
    \/ ResetResults
    \/ \E data \in BulkSheets : BulkUpload(data)
    \/ \E file \in Uploads : StartUpload(file)
    \/ \E i \in 1..MaxRows : RowStore(i)
    \/ \E i \in 1..MaxRows : RowStoreError(i)
    \/ Respond
    \/ Finish

Spec == Init /\ [][Next]_vars

(***************************************************************************)
(* The same week-score file uploaded again and again, nothing else running.*)
(***************************************************************************)
\* the stores an enrollment spreadsheet leaves, and those with one student
\* moved to the branch of the course by PUT /:id
TwiceStores ==
    LET bulk == UNION { BulkStores(<<>>, data, 1) : data \in BulkSheets }
    IN  bulk \cup
        UNION { { [st EXCEPT ![d] = Patched(@, [branch |-> BranchCS])] :
                    d \in DOMAIN st } : st \in bulk }

\* data lines: student A twice with different scores, student B
TwiceLines ==
    { <<"1",",","n",",","a","@","x",",","r","1",",","5">>,
      <<"3",",","n",",","a","@","x",",","r","1",",","4">>,
      <<"2",",","n",",","r","2","@",".","a","c",".","i","n",",","r","2",",","x">> }

TwiceUploads ==
    { [filename |-> f,
       content  |-> JoinLines(<<HeaderWeek>> \o d)] :
        f \in Filenames,
        d \in UNION { [1..k -> TwiceLines] : k \in 1..MaxRows } }

InitTwice ==
    /\ variant \in {1, 2}
    /\ students \in TwiceStores
    /\ req = NoReq
    /\ batch = NoBatch
    /\ tasks = <<>>
    /\ res = NoRes
    /\ lookups = {}
    /\ prev = NoPrev

FirstUpload(file) == ~prev.set /\ StartUpload(file)

SameUploadAgain ==
    /\ prev.set
    /\ StartUpload(prev.file)

\* the request is over; what it was and what it left is recorded
FinishRecord ==
    /\ FinishRequest
    /\ prev' = [set         |-> TRUE,
                file        |-> [filename |-> req.filename, content |-> req.content],
                store       |-> students,
                status      |-> res.status,
                successful  |-> IF res.status = 200 THEN res.successful ELSE 0,
                failed      |-> IF res.status = 200 THEN res.failed ELSE 0,
                storeErrors |-> \E i \in 1..Len(tasks) : tasks[i].reason = "store"]

NextTwice ==
    \/ \E file \in TwiceUploads : FirstUpload(file)
    \/ SameUploadAgain
    \/ \E i \in 1..MaxRows : RowStore(i)
    \/ \E i \in 1..MaxRows : RowStoreError(i)
    \/ Respond
    \/ FinishRecord

SpecTwice == InitTwice /\ [][NextTwice]_vars

(***************************************************************************)
(* Properties.                                                             *)
(***************************************************************************)
\* the upload in flight passed the batch-level checks and its rows were started
RowsStarted == req.active /\ batch # NoBatch

\* the results a row carries
ResultsOf(i) == RowResults(batch.headers, tasks[i].row)

\* the lookup of row i finds a student in the store as it is
LookupMatches(i) ==
    \E d \in DOMAIN students :
        StudentFilter(variant, students[d], tasks[i].row[3], tasks[i].row[4],
                      batch.courseId, batch.branch)

\* row i settles in this step, and not by a failure of the store
SettlesHere(i) ==
    /\ i \in 1..Len(tasks)
    /\ tasks[i].status = "pending"
    /\ Len(tasks') = Len(tasks)
    /\ tasks'[i].status # "pending"
    /\ tasks'[i].reason # "store"

\* C1: in a week-score upload every retained row is matched and merged
\* independently of the others.  Whatever rows fail, the response of a batch
\* whose rows were started is the batch report (never an error) and is sent
\* with every row settled; a row fails only for a reason of its own (its own
\* missing identity, its own lookup finding nobody, its own store error);
\* and whenever the lookup of a row finds its student enrolled, the row is
\* fulfilled and that student's results for the course are the row's.
C1_RowSettlesOnItsOwn ==
    \A i \in 1..Len(tasks) :
        SettlesHere(i) =>
            IF LookupMatches(i)
            THEN /\ tasks'[i].status = "fulfilled"
                 /\ tasks'[i].doc \in DOMAIN students'
                 /\ \E k \in 1..Len(students'[tasks'[i].doc].courses) :
                       /\ students'[tasks'[i].doc].courses[k].courseId = batch.courseId
                       /\ students'[tasks'[i].doc].courses[k].results = ResultsOf(i)
            ELSE /\ tasks'[i].status = "rejected"
                 /\ tasks'[i].reason = "notfound"
                 /\ students' = students

C1_ReportWhateverFails ==
    (RowsStarted /\ res.status # 0) =>
        /\ res.status = 200
        /\ res.processed = Len(tasks)
        /\ \A i \in 1..Len(tasks) :
              /\ tasks[i].status \in {"fulfilled", "rejected"}
              /\ tasks[i].status = "rejected" =>
                    tasks[i].reason \in {"missing", "notfound", "store"}
              /\ tasks[i].reason = "missing" =>
                    MissingIdentity(variant, tasks[i].row[3], tasks[i].row[4])

\* C1: each retained row of a week-score upload is matched and merged on its
\* own: the batch report is sent whatever rows fail, and a row whose lookup
\* finds its student is merged whatever happened to the other rows.
C1_RowsIndependent ==
    [](C1_ReportWhateverFails) /\ [][C1_RowSettlesOnItsOwn]_vars

\* C1 witness: the report of a batch whose first row failed and whose second
\* row was merged into the store
C1_Witness ==
    /\ res.status = 200
    /\ Len(tasks) = 2
    /\ tasks[1].status = "rejected"
    /\ tasks[2].status = "fulfilled"
    /\ tasks[2].doc \in DOMAIN students
    /\ \E k \in 1..Len(students[tasks[2].doc].courses) :
          students[tasks[2].doc].courses[k].results = ResultsOf(2)
    /\ ResultsOf(2) # <<>>

\* the data rows of the file that the short-row filter retains, counted from
\* the parsed lines
RetainedCount ==
    LET rows == ParseRows(req.content)
    IN  Cardinality({ i \in 2..Len(rows) : Len(rows[i]) >= Len(rows[1]) })

\* C2: in the report of a week-score batch, successful + failed is the number
\* of data rows retained by the short-row filter, and errors has exactly
\* `failed` entries.
C2_RowCount ==
    (req.active /\ res.status = 200) =>
        /\ res.successful + res.failed = RetainedCount
        /\ Len(res.errors) = res.failed

\* C2 witness: a report with a success and a failure, of a file one of whose
\* lines the filter dropped
C2_Witness ==
    /\ req.active
    /\ res.status = 200
    /\ res.successful = 1
    /\ res.failed = 1
    /\ Len(ParseRows(req.content)) - 1 > RetainedCount

\* C3: the batch report is sent only after every retained row has reached its
\* final outcome, and no store operation of the batch happens after the
\* response.
C3_JoinBeforeReport ==
    /\ [](res.status # 0 => \A i \in 1..Len(tasks) : tasks[i].status # "pending")
    /\ [][res.status # 0 => lookups' \subseteq lookups]_vars

\* C3 witness: a report sent after both rows of the batch reached the store
C3_Witness ==
    /\ res.status = 200
    /\ Len(tasks) = 2
    /\ lookups = {1, 2}

\* the student of document d carries the email or the roll number of row i
IdentityMatches(d, i) ==
    \/ students[d].email = tasks[i].row[3]
    \/ students[d].rollNumber = tasks[i].row[4]

\* document d has an enrollment whose courseId is the batch's
EnrolledIn(d) ==
    \E k \in 1..Len(students[d].courses) :
        students[d].courses[k].courseId = batch.courseId

\* C4: when a row is merged into a student, every enrollment of that student
\* whose courseId equals the batch's courseId ignoring letter case ends with
\* exactly the results built from the row.
C4_MergeStep ==
    \A i \in 1..Len(tasks) :
        (SettlesHere(i) /\ tasks'[i].status = "fulfilled") =>
            \A k \in 1..Len(students[tasks'[i].doc].courses) :
                ToLower(students[tasks'[i].doc].courses[k].courseId)
                        = ToLower(batch.courseId)
                    => students'[tasks'[i].doc].courses[k].results = ResultsOf(i)

\* C4: a successful merge leaves every enrollment of the student whose
\* courseId equals the batch's courseId (ignoring case) with exactly the
\* results built from the row.
C4_MergeReplacesResults == [][C4_MergeStep]_vars

\* row i names a stored student, and no student it names has an enrollment
\* with the batch's courseId
KnownNotEnrolled(i) ==
    /\ \E d \in DOMAIN students : IdentityMatches(d, i)
    /\ \A d \in DOMAIN students : IdentityMatches(d, i) => ~EnrolledIn(d)

\* C5 as stated: a row that matches an existing student without an enrollment
\* for the batch's courseId succeeds, and a new enrollment with that courseId
\* and the row's results is appended to the student's courses.
C5_AppendStep ==
    \A i \in 1..Len(tasks) :
        (SettlesHere(i) /\ KnownNotEnrolled(i)) =>
            /\ tasks'[i].status = "fulfilled"
            /\ \E d \in DOMAIN students :
                  /\ IdentityMatches(d, i)
                  /\ Len(students'[d].courses) = Len(students[d].courses) + 1
                  /\ students'[d].courses[Len(students'[d].courses)].courseId
                        = batch.courseId
                  /\ students'[d].courses[Len(students'[d].courses)].results
                        = ResultsOf(i)

\* C5 as stated: a row of a known student who is not enrolled in the course
\* succeeds and appends a new enrollment holding the row's results.
C5_AppendsEnrollment == [][C5_AppendStep]_vars

\* C5 as amended: a row that matches an existing student without an
\* enrollment for the batch's courseId fails as "not found or not enrolled";
\* nothing is appended and the store is left as it was.
C5_FailStep ==
    \A i \in 1..Len(tasks) :
        (SettlesHere(i) /\ KnownNotEnrolled(i)) =>
            /\ tasks'[i].status = "rejected"
            /\ tasks'[i].reason = "notfound"
            /\ students' = students

\* C5 as amended: a row of a known student who is not enrolled in the course
\* fails as not found, and the store is left unchanged.
C5_NotEnrolledFails == [][C5_FailStep]_vars

\* C5 witness: the report of a batch with a row that failed as not found
\* although the store holds its student, who is not enrolled in the course
C5_Witness ==
    /\ res.status = 200
    /\ res.failed >= 1
    /\ \E i \in 1..Len(tasks) :
          /\ tasks[i].reason = "notfound"
          /\ KnownNotEnrolled(i)

\* per document and enrollment, the results stored for course cid
CourseResults(store, cid) ==
    [d \in DOMAIN store |->
        [k \in 1..Len(store[d].courses) |->
            IF store[d].courses[k].courseId = cid
            THEN store[d].courses[k].results
            ELSE <<>>]]

\* the report of the second of two uploads of the same file is out
SecondReport == prev.set /\ req.active /\ res.status = 200

SameAsFirst ==
    /\ CourseResults(students, batch.courseId)
          = CourseResults(prev.store, batch.courseId)
    /\ prev.status = 200
    /\ res.successful = prev.successful
    /\ res.failed = prev.failed

NoStoreError ==
    /\ ~prev.storeErrors
    /\ \A i \in 1..Len(tasks) : tasks[i].reason # "store"

\* C6 as stated, for uploads in which no store operation fails: uploading the
\* same week-score batch twice in a row leaves every student's results for
\* the course as they were after the first upload, and the second report has
\* the same successful/failed counts.
C6_Idempotent == (SecondReport /\ NoStoreError) => SameAsFirst

\* the students the lookup of row i can find
HitSet(i) ==
    { d \in DOMAIN students :
        StudentFilter(variant, students[d], tasks[i].row[3], tasks[i].row[4],
                      batch.courseId, batch.branch) }

\* every looked-up row finds at most one student, and no two find the same
RowsUnambiguous ==
    \A i \in lookups :
        /\ Cardinality(HitSet(i)) <= 1
        /\ \A j \in lookups \ {i} : HitSet(i) \cap HitSet(j) = {}

\* C6 as amended: the same, provided that no store operation of either upload
\* fails, that every row matches at most one stored student and that no two
\* rows of the batch match the same student.
C6_IdempotentUnlessRaceOrError ==
    (SecondReport /\ NoStoreError /\ RowsUnambiguous) => SameAsFirst

\* C6 witness: the second report of a file with rows for two students, both
\* merged, the stored results being those of the first upload
C6_Witness ==
    /\ SecondReport
    /\ NoStoreError
    /\ RowsUnambiguous
    /\ res.successful = 2
    /\ students = prev.store
    /\ \E d \in DOMAIN students : \E k \in 1..Len(students[d].courses) :
          students[d].courses[k].results # <<>>

\* C7: no stored student has two entries in courses whose courseId is equal
\* ignoring letter case.
C7_UniqueEnrollments ==
    \A d \in DOMAIN students :
        \A j, k \in 1..Len(students[d].courses) :
            j < k => ToLower(students[d].courses[j].courseId)
                        # ToLower(students[d].courses[k].courseId)

\* the three batch-fatal conditions, read off the uploaded file
NoCourseId == ~ResolveCourse(variant, req.filename).matched

NoDataRows == RetainedCount = 0

NoWeekColumn == \A h \in 1..Len(ParseRows(req.content)[1]) :
                    ~IsWeekHeader(ParseRows(req.content)[1][h])

\* C8: a week-score upload with no derivable course id, no data rows or no
\* week-score column is answered with an error before any row is processed:
\* no row is started, no student lookup or update is issued.  (Stated for
\* variant 1, the one that checks all three; variant 2 checks the name only.)
C8_FatalAborts ==
    (variant = 1 /\ req.active /\ (NoCourseId \/ NoDataRows \/ NoWeekColumn)) =>
        /\ tasks = <<>>
        /\ lookups = {}
        /\ res.status # 0 => res.status = 400

\* C9: a week-score file that holds only a header (no data row is left after
\* the short-row filter) is rejected with the empty-input error, not answered
\* with a report of 0 processed rows, and no student lookup occurs.  (Stated
\* for variant 1, the one with the empty-input check.)
C9_HeaderOnlyRejected ==
    (variant = 1 /\ req.active /\ ~NoCourseId /\ ~NoWeekColumn /\ NoDataRows) =>
        /\ lookups = {}
        /\ res.status # 0 => (res.status = 400 /\ res.error = "empty")

\* C10 as stated: a row fails with the missing-identity error, before any
\* store lookup, if both its email and its roll number are empty; a row with
\* at least one of the two is passed on to student matching.  (Stated for
\* variant 1, the one with an identity check.)
C10_BothMissing ==
    \A i \in 1..Len(tasks) :
        variant = 1 =>
        IF Falsy(tasks[i].row[3]) /\ Falsy(tasks[i].row[4])
        THEN /\ tasks[i].status = "rejected"
             /\ tasks[i].reason = "missing"
             /\ i \notin lookups
        ELSE tasks[i].reason # "missing"

\* C10 as amended.  Variant 1: a row fails with the missing-identity error,
\* before any store lookup, if its email or its roll number is empty.
\* Variant 2 has no identity check.  Every other row is passed on to the store
\* lookup, and succeeds when its email or its roll number is that of a stored
\* student who is enrolled in the course (and, in variant 1, whose branch is
\* the course's branch code in upper case), unless the store fails.
C10_Checked ==
    \A i \in 1..Len(tasks) :
        /\ tasks[i].reason = "missing"
              <=> (variant = 1 /\ (Falsy(tasks[i].row[3]) \/ Falsy(tasks[i].row[4])))
        /\ tasks[i].reason = "missing" =>
              (tasks[i].status = "rejected" /\ i \notin lookups)
        /\ (tasks[i].status # "pending" /\ tasks[i].reason # "missing") =>
              i \in lookups

C10_MatchStep ==
    \A i \in 1..Len(tasks) :
        (/\ SettlesHere(i)
         /\ \E d \in DOMAIN students :
               /\ IdentityMatches(d, i)
               /\ EnrolledIn(d)
               /\ variant = 1 => students[d].branch = ToUpper(batch.branch))
        => tasks'[i].status = "fulfilled"

\* C10 as amended: variant 1 rejects a row as missing its identity exactly
\* when its email or its roll number is empty, before any lookup; variant 2
\* never does; a row naming an enrolled student of the right branch is
\* fulfilled when its lookup completes.
C10_IdentityCheck == [](C10_Checked) /\ [][C10_MatchStep]_vars

\* C10 witness: variant 1 reported a row with a roll number and no email as
\* missing its identity, without a lookup
C10_Witness ==
    /\ variant = 1
    /\ res.status = 200
    /\ \E i \in 1..Len(tasks) :
          /\ tasks[i].reason = "missing"
          /\ Falsy(tasks[i].row[3])
          /\ ~Falsy(tasks[i].row[4])
          /\ i \notin lookups

(***************************************************************************)
(* Week-score uploads alone, on a store of two enrolled students; the      *)
(* store each upload started from is recorded.                             *)
(***************************************************************************)
CourseMe2 == <<"n","o","c","2","5","-","m","e","2">>
Week01 == <<"W","e","e","k"," ","0","1"," ","A","s","s","i","g","n","m","e","n","t">>

\* student A: branch CS, enrolled in noc25-cs1 and, with a result, noc25-me2
StudentA ==
    Doc(RollA, EmailA, BranchCS,
        <<Enrollment(CourseCs1, <<>>),
          Enrollment(CourseMe2, <<[week |-> Week2, score |-> 7]>>)>>)

\* student B of branch b: enrolled in noc25-cs1, with a result of an earlier week
StudentB(b) ==
    Doc(RollB, EmailB, b,
        <<Enrollment(CourseCs1, <<[week |-> Week2, score |-> 7]>>)>>)

RowsStores == { <<StudentA, StudentB(b)>> : b \in {BranchCS, BranchME} }

\* header lines of six columns: "Week 1 Assignment" and "Week 1";
\* "Week 01 Assignment" and "week1"
RowsHeaders ==
    { <<"I","D",",","N","a","m","e",",","E","m","a","i","l",",","R","o","l","l",",",
        "W","e","e","k"," ","1"," ","A","s","s","i","g","n","m","e","n","t",",",
        "W","e","e","k"," ","1">>,
      <<"I","D",",","N","a","m","e",",","E","m","a","i","l",",","R","o","l","l",",",
        "W","e","e","k"," ","0","1"," ","A","s","s","i","g","n","m","e","n","t",",",
        "w","e","e","k","1">> }

\* data lines: student A with score 5; student A again with the cell "4x";
\* student B with the cell "x"; student B's email and roll number in other
\* letter case
RowsLines ==
    { <<"1",",","n",",","a","@","x",",","r","1",",","5",",","6">>,
      <<"3",",","n",",","a","@","x",",","r","1",",","4","x",",","6">>,
      <<"2",",","n",",","b","@","x",",","r","2",",","x",",","6">>,
      <<"2",",","n",",","B","@","x",",","R","2",",","3",",","6">> }

RowsUploads ==
    { [filename |-> f, content |-> JoinLines(<<h>> \o d)] :
        f \in { g \in Filenames : ResolveCourse(1, g).matched },
        h \in RowsHeaders,
        d \in UNION { [1..k -> RowsLines] : k \in 1..MaxRows } }

InitRows ==
    /\ variant \in {1, 2}
    /\ students \in RowsStores
    /\ req = NoReq
    /\ batch = NoBatch
    /\ tasks = <<>>
    /\ res = NoRes
    /\ lookups = {}
    /\ prev = NoPrev

\* the upload starts; the store it finds is recorded
StartRecorded(file) ==
    /\ StartRequest(file)
    /\ prev' = [set |-> TRUE, store |-> students]

FinishForget == FinishRequest /\ prev' = NoPrev

NextRows ==
    \/ \E file \in RowsUploads : StartRecorded(file)
    \/ \E i \in 1..MaxRows : RowStore(i)
    \/ \E i \in 1..MaxRows : RowStoreError(i)
    \/ Respond
    \/ FinishForget

SpecRows == InitRows /\ [][NextRows]_vars

(***************************************************************************)
(* Matching of a row to a student.                                         *)
(***************************************************************************)
\* the student of document d carries the email or the roll number of row i
\* up to letter case
MatchesIgnoringCase(d, i) ==
    \/ ToLower(students[d].email) = ToLower(tasks[i].row[3])
    \/ ToLower(students[d].rollNumber) = ToLower(tasks[i].row[4])

\* the branch of document d passes the lookup of the batch
BranchPasses(d) == variant = 1 => students[d].branch = ToUpper(batch.branch)

\* no stored student carries the email or the roll number of row i exactly,
\* but an enrolled one of the batch's branch does up to letter case
OnlyCaseDiffers(i) ==
    /\ \A d \in DOMAIN students : ~IdentityMatches(d, i)
    /\ \E d \in DOMAIN students :
          MatchesIgnoringCase(d, i) /\ EnrolledIn(d) /\ BranchPasses(d)

C11_CascadeStep ==
    \A i \in 1..Len(tasks) :
        (SettlesHere(i) /\ OnlyCaseDiffers(i)) =>
            /\ tasks'[i].status = "fulfilled"
            /\ MatchesIgnoringCase(tasks'[i].doc, i)

\* C11 as stated: a row whose email or roll number differs from the stored
\* value only in letter case is matched to that student by the second step of
\* the cascade and not reported as not found.
C11_CascadeMatches == [][C11_CascadeStep]_vars

C11_ExactStep ==
    \A i \in 1..Len(tasks) :
        SettlesHere(i) =>
            /\ tasks'[i].status = "fulfilled" =>
                  /\ tasks'[i].doc \in DOMAIN students
                  /\ IdentityMatches(tasks'[i].doc, i)
            /\ (\A d \in DOMAIN students : ~IdentityMatches(d, i)) =>
                  /\ tasks'[i].status = "rejected"
                  /\ tasks'[i].reason = "notfound"
                  /\ students' = students

\* C11 as amended: matching is one lookup by exact equality of email or roll
\* number; a row is merged only into a student one of whose two fields equals
\* the row's exactly, and a row no student matches exactly fails as not found
\* and leaves the store unchanged, also when a student matches up to letter
\* case.
C11_ExactMatchOnly == [][C11_ExactStep]_vars

\* C11 witness: a report with a row that failed as not found although an
\* enrolled student of the batch's branch carries its email and roll number
\* in other letter case
C11_Witness ==
    /\ res.status = 200
    /\ \E i \in 1..Len(tasks) :
          /\ tasks[i].status = "rejected"
          /\ tasks[i].reason = "notfound"
          /\ OnlyCaseDiffers(i)

(***************************************************************************)
(* Matching and the classification fields branch and year.                 *)
(***************************************************************************)
Years == { <<"2">>, <<"3">> }

Branches == { BranchCS, BranchME }

\* the stores that differ from store at most in the fields of fs ("branch",
\* "year") of its students
Reclassified(store, fs) ==
    { [d \in DOMAIN store |->
          [store[d] EXCEPT !.branch = IF "branch" \in fs THEN b[d] ELSE @,
                           !.year   = IF "year" \in fs THEN y[d] ELSE @]] :
        b \in [DOMAIN store -> Branches], y \in [DOMAIN store -> Years] }

\* the lookup of row i finds a student in store
FindsIn(store, i) ==
    \E d \in DOMAIN store :
        StudentFilter(variant, store[d], tasks[i].row[3], tasks[i].row[4],
                      batch.courseId, batch.branch)

C12_AnyClassStep ==
    \A i \in 1..Len(tasks) :
        SettlesHere(i) =>
            \A other \in Reclassified(students, {"branch", "year"}) :
                tasks'[i].status = "fulfilled" <=> FindsIn(other, i)

\* C12 as stated: the outcome of matching a row does not depend on the stored
\* branch or year; on a store that differs only in those fields the row has
\* the same outcome.
C12_BranchYearIrrelevant == [][C12_AnyClassStep]_vars

C12_ClassStep ==
    \A i \in 1..Len(tasks) :
        SettlesHere(i) =>
            /\ \A other \in Reclassified(students,
                                IF variant = 1 THEN {"year"} ELSE {"branch", "year"}) :
                  tasks'[i].status = "fulfilled" <=> FindsIn(other, i)
            /\ (variant = 1 /\ tasks'[i].status = "fulfilled") =>
                  students[tasks'[i].doc].branch = ToUpper(batch.branch)
            /\ (variant = 1 /\ \A d \in DOMAIN students : ~BranchPasses(d)) =>
                  tasks'[i].status = "rejected"

\* C12 as amended: the outcome of matching a row never depends on the stored
\* year, and in variant 2 not on the stored branch; in variant 1 a row is
\* matched only to a student whose branch is the branch code of the file name
\* in upper case.
C12_YearIrrelevantBranchChecked == [][C12_ClassStep]_vars

\* C12 witness: variant 1 reported a row as not found whose student is
\* stored and enrolled, under another branch
C12_Witness ==
    /\ variant = 1
    /\ res.status = 200
    /\ \E i \in 1..Len(tasks) :
          /\ tasks[i].status = "rejected"
          /\ tasks[i].reason = "notfound"
          /\ \E d \in DOMAIN students :
                IdentityMatches(d, i) /\ EnrolledIn(d) /\ ~BranchPasses(d)

(***************************************************************************)
(* The errors of the report.                                               *)
(***************************************************************************)
\* the rows of the batch that failed
RejectedRows == { i \in 1..Len(tasks) : tasks[i].status = "rejected" }

\* C13: every row that failed appears exactly once in the report's errors, in
\* row order, with the row's roll number and its reason, and no other row
\* appears there; successful and failed count the two kinds of rows.
C13_ErrorsAttributed ==
    (req.active /\ res.status = 200) =>
        /\ res.failed = Cardinality(RejectedRows)
        /\ res.successful = Len(tasks) - Cardinality(RejectedRows)
        /\ \E f \in [1..Len(res.errors) -> RejectedRows] :
              /\ \A i \in RejectedRows : \E k \in 1..Len(res.errors) : f[k] = i
              /\ \A k, l \in 1..Len(res.errors) : k < l => f[k] < f[l]
              /\ \A k \in 1..Len(res.errors) :
                    /\ res.errors[k].studentId = tasks[f[k]].row[4]
                    /\ res.errors[k].error = tasks[f[k]].reason
                    /\ res.errors[k].error \in {"missing", "notfound", "store"}

\* C13 witness: a report of two rows, the first merged, the second failed with
\* a roll number no student has, which the single error entry carries
C13_Witness ==
    /\ req.active
    /\ res.status = 200
    /\ Len(tasks) = 2
    /\ tasks[1].status = "fulfilled"
    /\ tasks[2].status = "rejected"
    /\ tasks[2].reason = "notfound"
    /\ res.successful = 1
    /\ res.failed = 1
    /\ Len(res.errors) = 1
    /\ res.errors[1].studentId = tasks[2].row[4]
    /\ res.errors[1].studentId # tasks[2].row[3]
    /\ res.errors[1].studentId # <<>>

(***************************************************************************)
(* Score cells that are no numbers.                                        *)
(***************************************************************************)
\* the cell is a number written out: an optional sign and digits, no more
IsNumeral(cell) ==
    LET from == IF Len(cell) >= 1 /\ cell[1] \in {"-", "+"} THEN 2 ELSE 1
    IN  /\ Len(cell) >= from
        /\ \A p \in from..Len(cell) : IsDigit(cell[p])

\* the number of digits the cell starts with, after a sign
LeadingDigits(cell) ==
    DigitRun(cell, IF Len(cell) >= 1 /\ cell[1] \in {"-", "+"} THEN 2 ELSE 1)

\* the results stored by the merge of this step for row i
MergedResults(i) ==
    LET d == tasks'[i].doc
    IN  students'[d].courses[Positional(students[d], batch.courseId)].results

C14_ZeroStep ==
    \A i \in 1..Len(tasks) :
        SettlesHere(i) =>
            /\ LookupMatches(i) => tasks'[i].status = "fulfilled"
            /\ tasks'[i].status = "fulfilled" =>
                  LET cols == WeekScoreColumns(batch.headers)
                  IN  /\ Len(MergedResults(i)) = Len(cols)
                      /\ \A k \in 1..Len(cols) :
                            ~IsNumeral(tasks[i].row[cols[k]]) =>
                                /\ MergedResults(i)[k].week = batch.headers[cols[k]]
                                /\ MergedResults(i)[k].score = 0

\* C14 as stated: a score cell that is not a number (empty, text) still
\* yields a result entry for its week, with score 0, and the row is merged
\* normally.
C14_NonNumericIsZero == [][C14_ZeroStep]_vars

C14_PrefixStep ==
    \A i \in 1..Len(tasks) :
        SettlesHere(i) =>
            /\ LookupMatches(i) => tasks'[i].status = "fulfilled"
            /\ tasks'[i].status = "fulfilled" =>
                  LET cols == WeekScoreColumns(batch.headers)
                  IN  /\ Len(MergedResults(i)) = Len(cols)
                      /\ \A k \in 1..Len(cols) :
                            LET cell == tasks[i].row[cols[k]]
                            IN  /\ MergedResults(i)[k].week = batch.headers[cols[k]]
                                /\ LeadingDigits(cell) = 0 =>
                                      MergedResults(i)[k].score = 0
                                /\ (~IsNumeral(cell) /\ LeadingDigits(cell) > 0) =>
                                      MergedResults(i)[k].score # 0

\* C14 as amended: a score cell never makes the row fail, and every score
\* column yields a result entry; the score is 0 when the cell does not start
\* with a number (empty, "x"), and the leading number when text follows one
\* ("4x" gives 4).
C14_NonNumericNeverFails == [][C14_PrefixStep]_vars

\* C14 witness: a merged row whose score cell is the text "x", stored with
\* score 0 under the week of its column
C14_Witness ==
    /\ res.status = 200
    /\ \E i \in 1..Len(tasks) :
          /\ tasks[i].status = "fulfilled"
          /\ tasks[i].row[5] = <<"x">>
          /\ LET d == tasks[i].doc
             IN  /\ d \in DOMAIN students
                 /\ Positional(students[d], batch.courseId) # 0
                 /\ students[d].courses[Positional(students[d], batch.courseId)].results
                       = <<[week |-> batch.headers[5], score |-> 0]>>

(***************************************************************************)
(* File names put together from a prefix, a branch code, a separator and a *)
(* number, uploaded with one data row.                                     *)
(***************************************************************************)
CourseCs52 == <<"n","o","c","2","5","-","c","s","5","2">>

\* prefixes: the text, and the "noc" part it holds (empty: none)
NamePrefixes ==
    { [text |-> <<"n","s","_","n","o","c","2","5","_">>, noc |-> <<"n","o","c","2","5">>],
      [text |-> <<"N","S","_","N","O","C","2","5","_">>, noc |-> <<"N","O","C","2","5">>],
      [text |-> <<"n","o","c","2","5","_">>, noc |-> <<"n","o","c","2","5">>],
      [text |-> <<"n","o","c","2","4","-">>, noc |-> <<"n","o","c","2","4">>],
      [text |-> <<>>, noc |-> <<>>] }

NameBranches == { <<"c","s">>, <<"C","S">>, <<"m","e">>, <<"e","c","e">> }

NameSeparators == { <<>>, <<"-">>, <<"_">> }

NameNumber == <<"5","2">>

NameParts == [pre : NamePrefixes, branch : NameBranches, sep : NameSeparators]

BuildName(p) ==
    p.pre.text \o p.branch \o p.sep \o NameNumber \o <<".","c","s","v">>

NamedUploads ==
    { [filename |-> BuildName(p),
       content  |-> JoinLines(<<HeaderWeek, <<"1",",","n",",","a","@","x",",","r","1",",","5">>>>)] : p \in NameParts }

InitNamed ==
    /\ variant \in {1, 2}
    /\ students = <<Doc(RollA, EmailA, BranchCS, <<Enrollment(CourseCs52, <<>>)>>)>>
    /\ req = NoReq
    /\ batch = NoBatch
    /\ tasks = <<>>
    /\ res = NoRes
    /\ lookups = {}
    /\ prev = NoPrev

NextNamed ==
    \/ \E file \in NamedUploads : StartUpload(file)
    \/ \E i \in 1..MaxRows : RowStore(i)
    \/ \E i \in 1..MaxRows : RowStoreError(i)
    \/ Respond
    \/ Finish

SpecNamed == InitNamed /\ [][NextNamed]_vars

\* C15 as stated: every file name holding a known branch code followed by a
\* number resolves to noc25-{branch}{number}, the branch in lower case,
\* whatever the separator, the letter case and the prefix.
C15_AnyStyleResolves ==
    \A p \in NameParts :
        (req.active /\ req.filename = BuildName(p)) =>
            /\ batch # NoBatch
            /\ batch.courseId = <<"n","o","c","2","5","-">>
                                    \o ToLower(p.branch) \o NameNumber

\* the names variant v accepts: variant 1 those with the prefix ns_noc25_ (in
\* any letter case) and the number right after a branch code; variant 2 those
\* with noc, digits and - or _ before the branch code cs (or ce) and the
\* number right after it
Accepted(v, p) ==
    /\ p.sep = <<>>
    /\ IF v = 1
       THEN ToLower(p.pre.text) = <<"n","s","_","n","o","c","2","5","_">>
       ELSE p.pre.noc # <<>> /\ ToLower(p.branch) \in { <<"c","s">>, <<"c","e">> }

\* C15 as amended: variant 1 resolves a name that holds ns_noc25_, a branch
\* code of cs, me, ce, ee, ece and a number right after it (in any letter
\* case) to noc25-{branch}{number} with the branch in lower case; variant 2
\* resolves a name that holds noc{digits}, - or _, cs or ce and a number right
\* after it to noc{digits}-{branch}{number} in lower case.  Every other name
\* (another or no prefix, a separator between branch and number) is refused
\* with a 400 and no row is processed.
C15_ResolvesExpectedFormat ==
    \A p \in NameParts :
        (req.active /\ req.filename = BuildName(p)) =>
            IF Accepted(variant, p)
            THEN /\ batch # NoBatch
                 /\ res.status # 400
                 /\ batch.courseId =
                        (IF variant = 1 THEN <<"n","o","c","2","5">> ELSE ToLower(p.pre.noc))
                            \o <<"-">> \o ToLower(p.branch) \o NameNumber
            ELSE /\ res = [status |-> 400, error |-> "filename"]
                 /\ batch = NoBatch
                 /\ tasks = <<>>
                 /\ lookups = {}

\* C15 witness: variant 1 sent the report of NS_NOC25_CS52.csv, resolved to
\* noc25-cs52
C15_Witness ==
    /\ variant = 1
    /\ req.active
    /\ req.filename = <<"N","S","_","N","O","C","2","5","_","C","S","5","2",".","c","s","v">>
    /\ res.status = 200
    /\ res.courseId = CourseCs52
    /\ res.successful = 1

(***************************************************************************)
(* Headers and week labels.                                                *)
(***************************************************************************)
\* the position after the first "week" of the header and the spaces that
\* follow it (0: the header has no "week")
AfterWeek(h) ==
    LET l == ToLower(h)
        W == <<"w","e","e","k">>
    IN  IF ~Includes(l, W) THEN 0
        ELSE LET p == CHOOSE q \in 1..Len(l) :
                          HasAt(l, q, W) /\ \A j \in 1..(q - 1) : ~HasAt(l, j, W)
                 RECURSIVE Skip(_)
                 Skip(q) == IF q <= Len(l) /\ l[q] = " " THEN Skip(q + 1) ELSE q
             IN  Skip(p + 4)

\* the header holds a week-number token: "week" and a number
HasWeekToken(h) == AfterWeek(h) # 0 /\ DigitRun(h, AfterWeek(h)) >= 1

\* the week number of such a header
WeekNumberOf(h) ==
    DigitsValue(SubSeq(h, AfterWeek(h), AfterWeek(h) + DigitRun(h, AfterWeek(h)) - 1))

\* "Week {n} Assignment" for the week number n < 10 of the header
CanonicalLabel(h) ==
    <<"W","e","e","k"," ">>
        \o <<CHOOSE c \in {"0","1","2","3","4","5","6","7","8","9"} :
                 DigitValue(c) = WeekNumberOf(h)>>
        \o <<" ","A","s","s","i","g","n","m","e","n","t">>

C16_CanonicalStep ==
    \A i \in 1..Len(tasks) :
        (SettlesHere(i) /\ tasks'[i].status = "fulfilled") =>
            /\ \A h \in 1..Len(batch.headers) :
                  HasWeekToken(batch.headers[h]) =>
                      \E k \in 1..Len(MergedResults(i)) :
                          MergedResults(i)[k].week = CanonicalLabel(batch.headers[h])
            /\ \A k \in 1..Len(MergedResults(i)) :
                  \E h \in 1..Len(batch.headers) :
                      /\ HasWeekToken(batch.headers[h])
                      /\ MergedResults(i)[k].week = CanonicalLabel(batch.headers[h])

\* C16 as stated: every header with a week-number token is a score column and
\* is stored under the canonical label "Week {n} Assignment", n without
\* leading zero, so that "Week 01 Assignment", "Week 1" and "week1" give the
\* same stored label.
C16_CanonicalLabels == [][C16_CanonicalStep]_vars

\* the header holds the words "week" and "assignment", in any letter case
HasBothWords(h) ==
    /\ \E p \in 1..Len(h) : HasAt(ToLower(h), p, <<"w","e","e","k">>)
    /\ \E p \in 1..Len(h) : HasAt(ToLower(h), p, <<"a","s","s","i","g","n","m","e","n","t">>)

C16_VerbatimStep ==
    \A i \in 1..Len(tasks) :
        (SettlesHere(i) /\ tasks'[i].status = "fulfilled") =>
            LET cols == { h \in 1..Len(batch.headers) : HasBothWords(batch.headers[h]) }
            IN  /\ Len(MergedResults(i)) = Cardinality(cols)
                /\ \E f \in [1..Len(MergedResults(i)) -> cols] :
                      /\ \A k, l \in 1..Len(MergedResults(i)) : k < l => f[k] < f[l]
                      /\ \A k \in 1..Len(MergedResults(i)) :
                            MergedResults(i)[k].week = batch.headers[f[k]]

\* C16 as amended: a header is taken as a score column exactly when it holds
\* both the word "week" and the word "assignment" (in any letter case), and
\* its result is stored under the header as written, without normalisation:
\* "Week 01 Assignment" and "Week 1 Assignment" are stored as different
\* labels, and "Week 1" or "week1" are no score columns.
C16_VerbatimLabels == [][C16_VerbatimStep]_vars

\* C16 witness: a merged row of a file with the headers "Week 01 Assignment"
\* and "week1", stored as the single entry "Week 01 Assignment"
C16_Witness ==
    /\ res.status = 200
    /\ Len(batch.headers) = 6
    /\ batch.headers[5] = Week01
    /\ HasWeekToken(batch.headers[6])
    /\ \E i \in 1..Len(tasks) :
          /\ tasks[i].status = "fulfilled"
          /\ tasks[i].doc \in DOMAIN students
          /\ Positional(students[tasks[i].doc], batch.courseId) # 0
          /\ LET r == students[tasks[i].doc]
                        .courses[Positional(students[tasks[i].doc], batch.courseId)].results
             IN  Len(r) = 1 /\ r[1].week = Week01 /\ r[1].week # Week1

(***************************************************************************)
(* Interleavings of the rows of one batch.                                 *)
(***************************************************************************)
\* the rows of the batch that were merged
FulfilledRows == { i \in 1..Len(tasks) : tasks[i].status = "fulfilled" }

\* the index of the first enrollment of doc in the batch's course
FirstEnrollment(doc) ==
    CHOOSE k \in 1..Len(doc.courses) :
        /\ doc.courses[k].courseId = batch.courseId
        /\ \A j \in 1..(k - 1) : doc.courses[j].courseId # batch.courseId

\* store after row i alone was merged into the student it resolved to
MergedAlone(store, i) ==
    LET d == tasks[i].doc
    IN  [store EXCEPT ![d].courses[FirstEnrollment(store[d])].results = ResultsOf(i)]

\* the stores left by merging the rows of S one after another, in every order
RECURSIVE SerialOutcomes(_, _)
SerialOutcomes(store, S) ==
    IF S = {} THEN {store}
    ELSE UNION { SerialOutcomes(MergedAlone(store, i), S \ {i}) : i \in S }

\* C17: when the report of a batch is out, the store is the one left by
\* merging its successful rows one after another in some order; if the rows
\* resolved to different students, in any order; and a student several rows
\* resolved to holds, for the course, the complete results of exactly one of
\* those rows.
C17_RowsSerializable ==
    (req.active /\ res.status = 200 /\ prev.set) =>
        /\ students \in SerialOutcomes(prev.store, FulfilledRows)
        /\ (\A i, j \in FulfilledRows : i # j => tasks[i].doc # tasks[j].doc)
              => SerialOutcomes(prev.store, FulfilledRows) = {students}
        /\ \A i \in FulfilledRows :
              \E j \in FulfilledRows :
                  /\ tasks[j].doc = tasks[i].doc
                  /\ students[tasks[i].doc]
                        .courses[FirstEnrollment(students[tasks[i].doc])].results
                        = ResultsOf(j)

\* C17 witness: two rows with different scores resolved to the same student
\* and both were merged; the student holds the results of the first row, whose
\* write reached the store last
C17_Witness ==
    /\ req.active
    /\ res.status = 200
    /\ prev.set
    /\ FulfilledRows = {1, 2}
    /\ tasks[1].doc = tasks[2].doc
    /\ ResultsOf(1) # ResultsOf(2)
    /\ students[tasks[1].doc].courses[FirstEnrollment(students[tasks[1].doc])].results
          = ResultsOf(1)
    /\ students # prev.store

(***************************************************************************)
(* What a merge leaves alone.                                              *)
(***************************************************************************)
\* doc without the results of its enrollment k
WithoutResults(doc, k) == [doc EXCEPT !.courses[k].results = <<>>]

C18_FrameStep ==
    \A i \in 1..Len(tasks) :
        (SettlesHere(i) /\ tasks'[i].status = "fulfilled") =>
            LET d == tasks'[i].doc
            IN  /\ DOMAIN students' = DOMAIN students
                /\ \A e \in DOMAIN students \ {d} : students'[e] = students[e]
                /\ \E k \in 1..Len(students[d].courses) :
                      /\ students[d].courses[k].courseId = batch.courseId
                      /\ WithoutResults(students'[d], k) = WithoutResults(students[d], k)
                      /\ students'[d].courses[k].results = ResultsOf(i)

Routes(v) ==
    IF v = 1
    THEN << [method |-> "POST",   path |-> <<>>,                  handler |-> "create"],
            [method |-> "POST",   path |-> <<"bulk">>,            handler |-> "bulkUpload"],
            [method |-> "GET",    path |-> <<>>,                  handler |-> "getAll"],
            [method |-> "GET",    path |-> <<"unsubmitted">>,     handler |-> "unsubmitted"],
            [method |-> "GET",    path |-> <<":id">>,             handler |-> "getById"],
            [method |-> "PUT",    path |-> <<":id">>,             handler |-> "updateById"],
            [method |-> "DELETE", path |-> <<":id">>,             handler |-> "deleteById"],
            [method |-> "DELETE", path |-> <<"bulk">>,            handler |-> "bulkDelete"],
            [method |-> "POST",   path |-> <<"updateweekscore">>, handler |-> "updateWeekScore"],
            [method |-> "POST",   path |-> <<"reset-results">>,   handler |-> "resetResults"] >>
    ELSE << [method |-> "POST",   path |-> <<>>,                  handler |-> "create"],
            [method |-> "POST",   path |-> <<"bulk">>,            handler |-> "bulkUpload"],
            [method |-> "GET",    path |-> <<>>,                  handler |-> "getAll"],
            [method |-> "GET",    path |-> <<":id">>,             handler |-> "getById"],
            [method |-> "PUT",    path |-> <<":id">>,             handler |-> "updateById"],
            [method |-> "DELETE", path |-> <<":id">>,             handler |-> "deleteById"],
            [method |-> "DELETE", path |-> <<"bulk">>,            handler |-> "bulkDelete"],
            [method |-> "POST",   path |-> <<"updateweekscore">>, handler |-> "updateWeekScore"],
            [method |-> "GET",    path |-> <<"unsubmitted">>,     handler |-> "unsubmitted"] >>

\* the route matches the request: same method, same number of segments, each
\* segment equal or a parameter of the route
RouteMatches(route, r) ==
    /\ route.method = r.method
    /\ Len(route.path) = Len(r.path)
    /\ \A s \in 1..Len(r.path) : route.path[s] = ":id" \/ route.path[s] = r.path[s]

\* the handler of the first route that matches
Dispatch(v, r) ==
    LET rs == Routes(v)
        hit == { k \in 1..Len(rs) : RouteMatches(rs[k], r) }
    IN  IF hit = {} THEN "notFound"
        ELSE rs[CHOOSE k \in hit : \A j \in hit : k <= j].handler

\* the document id a path segment casts to (0: the cast to ObjectId fails)
CastId(seg) == IF seg = "1" THEN 1 ELSE IF seg = "2" THEN 2 ELSE 0

\* a response: what was asked, which handler answered, and what it answered
Response(r, h, status, found, n) ==
    [status |-> status, method |-> r.method, path |-> r.path, query |-> r.query,
     handler |-> h, students |-> found, deletedCount |-> n]

\* Student.find({ 'courses.courseId': courseId.toLowerCase(),
\*                'courses.results': { $elemMatch: { week, score: 0 } } }):
\* each of the two conditions holds of some element of courses
Unsubmitted(store, q) ==
    { d \in DOMAIN store :
        /\ \E k \in 1..Len(store[d].courses) :
              store[d].courses[k].courseId = ToLower(q.courseId)
        /\ \E k \in 1..Len(store[d].courses) :
              \E e \in 1..Len(store[d].courses[k].results) :
                  /\ store[d].courses[k].results[e].week = q.week
                  /\ store[d].courses[k].results[e].score = 0 }

\* the store and the response a handler leaves
Handled(h, store, r) ==
    LET id == IF Len(r.path) = 1 THEN CastId(r.path[1]) ELSE 0
    IN  IF h = "unsubmitted"
        THEN IF Falsy(r.query.courseId) \/ Falsy(r.query.week)
             THEN [store |-> store, res |-> Response(r, h, 400, {}, 0)]
             ELSE [store |-> store,
                   res   |-> Response(r, h, 200, Unsubmitted(store, r.query), 0)]
        ELSE IF h = "getById"
        THEN [store |-> store,
              res   |-> IF id = 0 THEN Response(r, h, 500, {}, 0)
                        ELSE IF id \notin DOMAIN store THEN Response(r, h, 404, {}, 0)
                        ELSE Response(r, h, 200, {id}, 0)]
        ELSE IF h = "deleteById"
        THEN IF id = 0 THEN [store |-> store, res |-> Response(r, h, 500, {}, 0)]
             ELSE IF id \notin DOMAIN store
             THEN [store |-> store, res |-> Response(r, h, 404, {}, 0)]
             ELSE [store |-> Remove(store, id), res |-> Response(r, h, 200, {}, 0)]
        ELSE IF h = "bulkDelete"
        THEN [store |-> <<>>,
              res   |-> Response(r, h, 200, {}, Cardinality(DOMAIN store))]
        ELSE IF h = "getAll"
        THEN [store |-> store, res |-> Response(r, h, 200, DOMAIN store, 0)]
        ELSE [store |-> store, res |-> Response(r, "notFound", 404, {}, 0)]

\* a GET or DELETE request is routed and answered
Serve(r) ==
    /\ ~req.active
    /\ LET out == Handled(Dispatch(variant, r), students, r)
       IN  /\ students' = out.store
           /\ res' = out.res
    /\ UNCHANGED <<variant, req, batch, tasks, lookups, prev>>

NoQuery == [courseId |-> <<>>, week |-> <<>>]

\* the requests: DELETE /bulk, DELETE and GET of an id, GET /, and GET
\* /unsubmitted with and without its parameters
Requests ==
    { [method |-> m, path |-> <<seg>>, query |-> NoQuery] :
        m \in {"GET", "DELETE"}, seg \in {"1", "2"} }
    \cup { [method |-> "DELETE", path |-> <<"bulk">>, query |-> NoQuery],
           [method |-> "GET", path |-> <<>>, query |-> NoQuery] }
    \cup { [method |-> "GET", path |-> <<"unsubmitted">>,
            query |-> [courseId |-> c, week |-> w]] :
             c \in {CourseCs1, CourseCs1Upper}, w \in {Week1, <<>>} }

\* student A scored 5 in week 1 of noc25-cs1 and 0 in week 1 of noc25-me2;
\* student B scored 0 in week 1 of noc25-cs1
RoutedStore ==
    << Doc(RollA, EmailA, BranchCS,
           <<Enrollment(CourseCs1, <<[week |-> Week1, score |-> 5]>>),
             Enrollment(CourseMe2, <<[week |-> Week1, score |-> 0]>>)>>),
       Doc(RollB, EmailB, BranchME,
           <<Enrollment(CourseCs1, <<[week |-> Week1, score |-> 0]>>)>>) >>

InitRouted ==
    /\ variant \in {1, 2}
    /\ students = RoutedStore
    /\ req = NoReq
    /\ batch = NoBatch
    /\ tasks = <<>>
    /\ res = NoRes
    /\ lookups = {}
    /\ prev = NoPrev

NextRouted ==
    \/ \E r \in Requests : Serve(r)
    \/ \E body \in Bodies : CreateStudent(body)
    \/ \E id \in DocIds, body \in Patches : UpdateStudent(id, body)

SpecRouted == InitRouted /\ [][NextRouted]_vars

\* a request is answered in this step
Answered == res' # res /\ res'.status # 0

C19_QueryStep ==
    (Answered /\ res'.status = 200 /\ res'.handler = "unsubmitted") =>
        \A d \in res'.students :
            \E k \in 1..Len(students[d].courses) :
                /\ students[d].courses[k].courseId = ToLower(res'.query.courseId)
                /\ \E e \in 1..Len(students[d].courses[k].results) :
                      /\ students[d].courses[k].results[e].week = res'.query.week
                      /\ students[d].courses[k].results[e].score = 0

\* C19: every student returned by the unsubmitted query for (courseId, week)
\* has an enrollment in that very course whose results hold an entry for that
\* week with score 0; a zero score for that week in another course does not
\* make an enrolled student appear.
C19_UnsubmittedInThatCourse == [][C19_QueryStep]_vars

C20_RouteStep ==
    /\ (Answered /\ res'.method = "DELETE" /\ res'.path = <<"bulk">>) =>
          /\ res'.handler = "bulkDelete"
          /\ res'.status = 200
          /\ res'.deletedCount = Cardinality(DOMAIN students)
          /\ students' = <<>>
    /\ (Answered /\ res'.method = "GET" /\ res'.path = <<"unsubmitted">>) =>
          res'.handler = "unsubmitted"

\* C20: DELETE /bulk is answered by the bulk-delete handler, which deletes
\* every student and reports their number, and GET /unsubmitted by the
\* unsubmitted handler, in every variant; neither is taken by a /:id route.
C20_LiteralRoutesReached == [][C20_RouteStep]_vars

(***************************************************************************)
(* Failed rows and the store.                                              *)
(***************************************************************************)
\* row i is recorded in this step as failed for want of an identity or of a
\* matching, enrolled student
FailsHere(i) ==
    /\ i \in 1..Len(tasks')
    /\ tasks'[i].status = "rejected"
    /\ tasks'[i].reason \in {"missing", "notfound"}
    /\ i \in 1..Len(tasks) => tasks[i].status = "pending"

C21_FailStep ==
    \A i \in 1..MaxRows : FailsHere(i) => students' = students

\* C21: a row of a week-score batch that is recorded as failed (missing
\* identity, no matching student, student not enrolled in the course) leaves
\* the store unchanged: the step that records the failure creates and
\* modifies no student.
C21_FailedRowLeavesStore == [][C21_FailStep]_vars

\* C21 witness: the report of a batch on a store that holds a student, with a
\* row that failed for its missing identity without a lookup and a row that
\* failed as not found after one
C21_Witness ==
    /\ res.status = 200
    /\ students # <<>>
    /\ \E i, j \in 1..Len(tasks) :
          /\ tasks[i].status = "rejected"
          /\ tasks[i].reason = "missing"
          /\ i \notin lookups
          /\ tasks[j].status = "rejected"
          /\ tasks[j].reason = "notfound"
          /\ j \in lookups

=============================================================================
